---- MODULE Spec2Model ----
(***************************************************************************)
(* State-machine model of play_chess.py: the MCTS_Model search controller  *)
(* (find_move, print_pvs), the game loops self_play and play that drive    *)
(* it, get_user_move, and a direct caller of find_move.  The search engine *)
(* (mcts.Node, mcts.Model) is not part of play_chess.py; its               *)
(* single-iteration operation `rollout` is modelled from the node contract *)
(* of the specification.                                                   *)
(***************************************************************************)
EXTENDS Integers, Sequences, FiniteSets, TLC

VARIABLES
    rolls,        \* MCTS_Model.rolls: iteration budget B
    pvs,          \* MCTS_Model.pvs: number of principal variations K
    driver,       \* who calls find_move: "self_play", "play" or "direct"
    rand,         \* the rand argument of self_play and play
    user_color,   \* play's user_color (TRUE: white)
    gboard,       \* the board of the game loop
    calls,        \* number of find_move calls made by the direct caller
    node,         \* MCTS_Model.node: the retained root (NoNode for None)
    pc,           \* position of the program
    board,        \* find_move's board argument
    pick_random,  \* find_move's pick_random argument
    i,            \* loop index of `for i in range(self.rolls)`
    depth,        \* number of nested find_move frames below the outermost
    newNode,      \* the last lookup took the 'Creating new node.' path
    ret,          \* the move find_move returned (0: none)
    err,          \* the exception find_move raised ("none": none)
    entry,        \* history: self.node when the outermost call was entered,
                  \* kept until the first iteration of the loop
    searched,     \* history: the root the last selection was made from,
                  \* kept until the first iteration of the next call
    lastBoard,    \* history: board of the previous call, if it returned a move
    lastMove,     \* history: move the previous call returned (0: none)
    batch,        \* history: rollouts run so far by the current find_move frame
    report,       \* what the last loop iteration printed through print_pvs
    udepth,       \* number of nested get_user_move frames below the outermost
    umove         \* the move get_user_move returned (0: none)

\* the state of the game loop play and of get_user_move
uvars == <<user_color, udepth, umove>>

\* the record of the current batch
bvars == <<batch, report>>

vars == <<rolls, pvs, driver, rand, gboard, calls, node, pc, board,
          pick_random, i, depth, newNode, ret, err, entry, searched,
          lastBoard, lastMove, batch, report, user_color, udepth, umove>>

----------------------------------------------------------------------------
(* Bounds of the model *)

\* number of find_move calls the direct caller makes
MaxCalls == 2

\* the interpreter's bound on nested find_move frames (CPython: 1000),
\* scaled down; exceeding it raises RecursionError
RecursionLimit == 2

\* iteration budgets explored (-mcts ROLLS)
RollsChoices == {1, 2, 6}

\* a budget with more than a hundred iterations, for the periodic report
LongRolls == 102

\* principal-variation counts explored (-pvs)
PvsChoices == {0, 2}

----------------------------------------------------------------------------
(* The rules engine: an abstract game.  A board is a number; its legal     *)
(* moves are 1..Len(Succ(b)), in the order board.legal_moves yields them,  *)
(* and move m leads to board Succ(b)[m].  Board equality compares the      *)
(* position and the move counters, so a board never recurs along a line    *)
(* (the graph is acyclic) while two lines may transpose into one board.    *)
(* Boards are the positions a game may start from; board                   *)
(* 14 starts a line of forced moves, 14 -> 15 -> ... -> 30, long enough    *)
(* for principal variations of more than ten moves.                        *)

Boards == 0..14

Succ(b) ==
    CASE b = 0 -> <<1, 4, 5, 6, 12, 13>>
      [] b = 1 -> <<7>>
      [] b = 2 -> <<7, 8>>
      [] b = 3 -> <<8, 9, 7>>
      [] b = 7 -> <<10>>
      [] b = 8 -> <<10, 11>>
      [] b = 10 -> <<31>>
      [] b \in 14..29 -> <<b + 1>>
      [] OTHER -> << >>

\* number of moves played before the board: every line into a board has
\* the same length
Ply(b) ==
    CASE b = 0 -> 0
      [] b \in {1, 2, 3, 4, 5, 6, 12, 13} -> 1
      [] b \in {7, 8, 9} -> 2
      [] b \in {10, 11} -> 3
      [] b = 31 -> 4
      [] OTHER -> b - 14

\* board.turn (TRUE: white, who moves first)
Turn(b) == Ply(b) % 2 = 0

LegalMoves(b) == 1..Len(Succ(b))

BoardPush(b, m) == Succ(b)[m]

IsGameOver(b) == Succ(b) = << >>

----------------------------------------------------------------------------
(* Search nodes.  A node and its subtree are a function from paths (the    *)
(* sequence of moves leading down from the node) to the statistics of the  *)
(* node at the end of the path; the node itself is the empty path.         *)

Stats0 == [N |-> 0, Q |-> 0]

NoNode == [board |-> -1, move |-> 0, t |-> (<< >> :> Stats0)]

\* mcts.Node(board, None, 0, self.model): unvisited, no children, no move
NewNode(b) == [board |-> b, move |-> 0, t |-> (<< >> :> Stats0)]

\* indices (in children order) of node.children
Children(nd) == {k \in LegalMoves(nd.board) : <<k>> \in DOMAIN nd.t}

\* node.children[k] with its subtree
Child(nd, k) ==
    [board |-> BoardPush(nd.board, k),
     move  |-> k,
     t     |-> [q \in {Tail(p) : p \in {r \in DOMAIN nd.t : Len(r) >= 1 /\ r[1] = k}}
                  |-> nd.t[<<k>> \o q]]]

RootN(nd) == nd.t[<< >>].N
RootQ(nd) == nd.t[<< >>].Q
ChildN(nd, k) == nd.t[<<k>>].N

\* the evaluation model's value of a board, from the side to move
Eval(b) == (b % 3) - 1

\* One search iteration from the node at path p (board b) of tree t: the
\* set of possible outcomes [t: tree, v: value backed up to the parent].
\* The first visit evaluates and expands the node; a later visit descends
\* into one child (the engine's choice) and backs its value up negated.
RECURSIVE RolloutAt(_, _, _)
RolloutAt(t, b, p) ==
    IF t[p].N = 0
    THEN {[t |-> [q \in {Append(p, k) : k \in LegalMoves(b)} |-> Stats0]
                 @@ [t EXCEPT ![p] = [N |-> 1, Q |-> Eval(b)]],
           v |-> Eval(b)]}
    ELSE IF IsGameOver(b)
    THEN {[t |-> [t EXCEPT ![p] = [N |-> @.N + 1, Q |-> @.Q + Eval(b)]],
           v |-> Eval(b)]}
    ELSE UNION {
           {[t |-> [r.t EXCEPT ![p] = [N |-> @.N + 1, Q |-> @.Q - r.v]],
             v |-> 0 - r.v] : r \in RolloutAt(t, BoardPush(b, k), Append(p, k))}
           : k \in LegalMoves(b)}

\* node.rollout(): the nodes that one iteration can turn nd into
Rollout(nd) == {[nd EXCEPT !.t = r.t] : r \in RolloutAt(nd.t, nd.board, << >>)}

\* the first element, in children order, of a set of children
SetMin(S) == CHOOSE k \in S : \A j \in S : k <= j

----------------------------------------------------------------------------
(* MCTS_Model.print_pvs, lines 104-124 *)

\* an entry of a rendered line: the move in notation and, on the first move
\* of a line, its annotation (line 115: visit share N/root.N and -Q)
Entry(k, note) == [san |-> k, note |-> note]

\* the truncation marker '...' of line 121
Marker == [san |-> 0, note |-> << >>]

\* lines 120-121: the number of entries kept of a long line
PvKeep == 10

\* the loop iterations between two reports, line 150
PvEvery == 100

\* what an iteration that does not call print_pvs leaves on the terminal
NoReport == [printed |-> FALSE, lines |-> << >>]

\* line 113, had the children been sorted by N ascending
RankedChild_Ascending(nd, r) ==
    CHOOSE k \in Children(nd) :
        Cardinality({j \in Children(nd) :
            \/ ChildN(nd, j) < ChildN(nd, k)
            \/ (ChildN(nd, j) = ChildN(nd, k) /\ j < k)}) = r - 1

\* line 113: sorted(node.children, key=lambda n:-n.N)[r-1]; the sort is
\* stable, so equally visited children keep their children order
RankedChild(nd, r) ==
    CHOOSE k \in Children(nd) :
        Cardinality({j \in Children(nd) :
            \/ ChildN(nd, j) > ChildN(nd, k)
            \/ (ChildN(nd, j) = ChildN(nd, k) /\ j < k)}) = r - 1

\* lines 116-118: from a node below the root, the moves of the most visited
\* children (the first of them, as max returns it) down to a node without
\* children
RECURSIVE MaxPath(_)
MaxPath(nd) ==
    IF Children(nd) = {} THEN << >>
    ELSE LET k == SetMin({c \in Children(nd) :
                      \A j \in Children(nd) : ChildN(nd, j) <= ChildN(nd, c)})
         IN  <<Entry(k, << >>)>> \o MaxPath(Child(nd, k))

\* lines 120-121, had the slice kept one entry more
Truncate_OneMore(pv) ==
    IF Len(pv) >= PvKeep
    THEN SubSeq(pv, 1, IF Len(pv) > PvKeep THEN PvKeep + 1 ELSE PvKeep) \o <<Marker>>
    ELSE pv

\* lines 120-121: if len(pv) >= 10: pv = pv[:10] + ['...']
Truncate(pv) ==
    IF Len(pv) >= PvKeep THEN SubSeq(pv, 1, PvKeep) \o <<Marker>> ELSE pv

\* lines 109-119: the untruncated list pv of line r (1-based) from root nd
PvLine(nd, r) ==
    LET c == RankedChild(nd, r)
    IN  <<Entry(c, <<ChildN(nd, c), RootN(nd), 0 - Child(nd, c).t[<< >>].Q>>)>>
        \o MaxPath(Child(nd, c))

\* line 107: pvs = min(self.pvs, len(root.children))
PvCount(nd, k) ==
    IF k <= Cardinality(Children(nd)) THEN k ELSE Cardinality(Children(nd))

\* lines 106-122: the lines print_pvs prints for root nd
PrintPvs(nd) == [r \in 1..PvCount(nd, pvs) |-> Truncate(PvLine(nd, r))]

\* line 150, had only the last iteration of the loop reported
PrintsPvs_LastOnly(j) == pvs # 0 /\ j = rolls - 1

\* line 150: self.pvs and (i % 100 == 0 or i == self.rolls-1)
PrintsPvs(j) == pvs # 0 /\ (j % PvEvery = 0 \/ j = rolls - 1)

----------------------------------------------------------------------------
(* MCTS_Model.find_move, lines 126-166 *)

\* lines 130-131: the children of nd whose board equals b
MatchingChildren(nd, b) == {k \in Children(nd) : BoardPush(nd.board, k) = b}

\* the scan, had it wrapped the matching board in a new node
ScanChildren_Reset(nd, b) ==
    IF nd # NoNode /\ MatchingChildren(nd, b) # {} THEN NewNode(b) ELSE nd

\* lines 128-133: self.node after the scan of the retained root's children
ScanChildren(nd, b) ==
    IF nd # NoNode /\ MatchingChildren(nd, b) # {}
    THEN Child(nd, SetMin(MatchingChildren(nd, b)))
    ELSE nd

\* line 136, had it compared the boards by identity (`is not`): the caller's
\* board is never the node's own board object
NeedsNewNode_Identity(nd, b) == TRUE

\* line 136, had it only tested `not self.node`
NeedsNewNode_NoBoardTest(nd, b) == nd = NoNode

\* line 136: not self.node or self.node.board != board
NeedsNewNode(nd, b) == nd = NoNode \/ nd.board # b

\* max(n.N for n in self.node.children)
MaxChildN(nd) == CHOOSE n \in {ChildN(nd, k) : k \in Children(nd)} :
                     \A k \in Children(nd) : ChildN(nd, k) <= n

\* line 155, had the threshold been .1
ThinkDeeper_Tenth(nd) == 10 * MaxChildN(nd) < RootN(nd)

\* line 155, had the threshold been one half
ThinkDeeper_Half(nd) == 2 * MaxChildN(nd) < RootN(nd)

\* line 155: max(n.N for n in children)/self.node.N < .2.  The quotient of
\* two integers is correctly rounded, so it is below the double .2 exactly
\* when 5 * max < N (for counts far below 2^53).
ThinkDeeper(nd) == 5 * MaxChildN(nd) < RootN(nd)

\* line 164, had it kept the last of the most visited children
BestChild_Last(nd) ==
    LET best == {k \in Children(nd) : \A j \in Children(nd) : ChildN(nd, j) <= ChildN(nd, k)}
    IN  CHOOSE k \in best : \A j \in best : j <= k

\* line 164: max(self.node.children, key = lambda n: n.N) returns the first
\* child, in children order, whose visit count is maximal
BestChild(nd) ==
    SetMin({k \in Children(nd) : \A j \in Children(nd) : ChildN(nd, j) <= ChildN(nd, k)})

\* entering find_move(b, pick_random = pr) from a caller
Enter(b, pr) ==
    /\ board' = b
    /\ pick_random' = pr
    /\ pc' = "lookup"
    /\ depth' = 0
    /\ i' = 0
    /\ ret' = 0
    /\ err' = "none"
    /\ newNode' = FALSE
    /\ entry' = node
    /\ batch' = 0
    /\ report' = NoReport
    /\ UNCHANGED <<rolls, pvs, driver, rand, node, searched, lastBoard, lastMove>>
    /\ UNCHANGED uvars

\* find_move raises: the exception leaves every frame of find_move
Raise(e) ==
    /\ pc' = "failed"
    /\ err' = e
    /\ lastMove' = 0
    /\ lastBoard' = 0
    /\ UNCHANGED <<rolls, pvs, driver, rand, gboard, calls, node, board,
                   pick_random, i, depth, newNode, ret, entry, searched>>
    /\ UNCHANGED <<bvars, uvars>>

\* lines 128-139: reuse the retained root or one of its children, else
\* make a new node
Lookup ==
    /\ pc = "lookup"
    /\ LET scanned == ScanChildren(node, board)
       IN  /\ newNode' = NeedsNewNode(scanned, board)
           /\ node' = IF NeedsNewNode(scanned, board) THEN NewNode(board) ELSE scanned
    /\ pc' = "preview"
    /\ UNCHANGED <<rolls, pvs, driver, rand, gboard, calls, board, pick_random,
                   i, depth, ret, err, entry, searched, lastBoard, lastMove>>
    /\ UNCHANGED <<bvars, uvars>>

\* lines 142-145: with pvs, one rollout before the priors are printed
Preview ==
    /\ pc = "preview"
    /\ IF pvs # 0 THEN node' \in Rollout(node) ELSE node' = node
    /\ pc' = "loop"
    /\ i' = 0
    /\ batch' = IF pvs # 0 THEN batch + 1 ELSE batch
    /\ UNCHANGED <<rolls, pvs, driver, rand, gboard, calls, board, pick_random,
                   depth, newNode, ret, err, entry, searched, lastBoard, lastMove>>
    /\ UNCHANGED <<report, uvars>>

\* lines 148-151: one iteration of the loop
Iterate ==
    /\ pc = "loop"
    /\ i < rolls
    /\ node' \in Rollout(node)
    /\ i' = i + 1
    /\ entry' = NoNode
    /\ searched' = NoNode
    /\ batch' = batch + 1
    /\ report' = IF PrintsPvs(i) THEN [printed |-> TRUE, lines |-> PrintPvs(node')]
                                  ELSE NoReport
    /\ UNCHANGED <<rolls, pvs, driver, rand, gboard, calls, pc, board, pick_random,
                   depth, newNode, ret, err, lastBoard, lastMove>>
    /\ UNCHANGED uvars

\* line 155 on a root without children: max() of an empty sequence
RaiseEmpty ==
    /\ pc = "loop"
    /\ i = rolls
    /\ Children(node) = {}
    /\ Raise("ValueError")

\* lines 155-157: the recursive call find_move(board, debug, pick_random)
Deepen ==
    /\ pc = "loop"
    /\ i = rolls
    /\ Children(node) # {}
    /\ ThinkDeeper(node)
    /\ depth < RecursionLimit
    /\ depth' = depth + 1
    /\ pc' = "lookup"
    /\ batch' = 0
    /\ report' = NoReport
    /\ UNCHANGED <<rolls, pvs, driver, rand, gboard, calls, node, board, pick_random,
                   i, newNode, ret, err, entry, searched, lastBoard, lastMove>>
    /\ UNCHANGED uvars

\* lines 155-157 when the interpreter has no frame left for the recursive call
StackOverflow ==
    /\ pc = "loop"
    /\ i = rolls
    /\ Children(node) # {}
    /\ ThinkDeeper(node)
    /\ depth = RecursionLimit
    /\ Raise("RecursionError")

\* lines 160-162, had the failing statement come after self.node was
\* reassigned to a child
PickRandom_AfterAssign ==
    /\ pc = "loop"
    /\ i = rolls
    /\ Children(node) # {}
    /\ ~ThinkDeeper(node)
    /\ pick_random
    /\ \E k \in Children(node) : node' = Child(node, k)
    /\ pc' = "failed"
    /\ err' = "AttributeError"
    /\ lastMove' = 0
    /\ lastBoard' = 0
    /\ UNCHANGED <<rolls, pvs, driver, rand, gboard, calls, board,
                   pick_random, i, depth, newNode, ret, entry, searched>>
    /\ UNCHANGED <<bvars, uvars>>

\* lines 160-161: self.children does not exist on MCTS_Model
PickRandom ==
    /\ pc = "loop"
    /\ i = rolls
    /\ Children(node) # {}
    /\ ~ThinkDeeper(node)
    /\ pick_random
    /\ Raise("AttributeError")

\* lines 163-166, had the move been read before self.node was reassigned
PickBest_StaleMove ==
    /\ pc = "loop"
    /\ i = rolls
    /\ Children(node) # {}
    /\ ~ThinkDeeper(node)
    /\ ~pick_random
    /\ node' = Child(node, BestChild(node))
    /\ ret' = node.move
    /\ searched' = node
    /\ lastBoard' = board
    /\ lastMove' = BestChild(node)
    /\ pc' = "done"
    /\ UNCHANGED <<rolls, pvs, driver, rand, gboard, calls, board, pick_random,
                   i, depth, newNode, err, entry>>
    /\ UNCHANGED <<bvars, uvars>>

\* lines 163-166: the most visited child becomes the root, its move is returned
PickBest ==
    /\ pc = "loop"
    /\ i = rolls
    /\ Children(node) # {}
    /\ ~ThinkDeeper(node)
    /\ ~pick_random
    /\ node' = Child(node, BestChild(node))
    /\ ret' = BestChild(node)
    /\ searched' = node
    /\ lastBoard' = board
    /\ lastMove' = BestChild(node)
    /\ pc' = "done"
    /\ UNCHANGED <<rolls, pvs, driver, rand, gboard, calls, board, pick_random,
                   i, depth, newNode, err, entry>>
    /\ UNCHANGED <<bvars, uvars>>

----------------------------------------------------------------------------
(* The callers of find_move *)

\* self_play, lines 66-68: the loop test and the call
SelfPlayCall ==
    /\ driver = "self_play"
    /\ pc = "idle"
    /\ ~IsGameOver(gboard)
    /\ Enter(gboard, rand)
    /\ UNCHANGED <<gboard, calls>>

\* self_play, lines 69-70: board.push(move)
SelfPlayPush ==
    /\ driver = "self_play"
    /\ pc = "done"
    /\ gboard' = BoardPush(gboard, ret)
    /\ pc' = "idle"
    /\ UNCHANGED <<rolls, pvs, driver, rand, calls, node, board, pick_random, i,
                   depth, newNode, ret, err, entry, searched, lastBoard, lastMove>>
    /\ UNCHANGED <<bvars, uvars>>

\* self_play, lines 66 and 72-74: the game is over, the result is printed
SelfPlayEnd ==
    /\ driver = "self_play"
    /\ pc = "idle"
    /\ IsGameOver(gboard)
    /\ pc' = "over"
    /\ UNCHANGED <<rolls, pvs, driver, rand, gboard, calls, node, board, pick_random,
                   i, depth, newNode, ret, err, entry, searched, lastBoard, lastMove>>
    /\ UNCHANGED <<bvars, uvars>>

\* the boards a direct caller supplies: one with two moves, one two plies
\* below it, one that is over
DirectBoards == {2, 4, 10}

\* a caller that uses MCTS_Model.find_move directly, with boards that need
\* not follow one another; like main, it does not catch what find_move raises
DirectCall ==
    /\ driver = "direct"
    /\ pc \in {"idle", "done"}
    /\ calls < MaxCalls
    /\ calls' = calls + 1
    /\ \E b \in DirectBoards, pr \in BOOLEAN : Enter(b, pr)
    /\ UNCHANGED gboard

----------------------------------------------------------------------------
(* get_user_move, lines 10-28, and play, lines 77-94 *)

\* What the user may type on board b, by what the two parsers of line 17
\* make of it: 0 when the parser raises ValueError, a legal move
\* 1..Len(Succ(b)), or Len(Succ(b)) + 1 for a move that is not legal (a null
\* move, a well-formed UCI move that cannot be played).  A text both parsers
\* accept denotes one move.
UserInputs(b) ==
    {inp \in [san : 0..(Len(Succ(b)) + 1), uci : 0..(Len(Succ(b)) + 1)] :
        (inp.san # 0 /\ inp.uci # 0) => inp.san = inp.uci}

\* lines 17-21: both parsers are tried in turn, the last success is kept;
\* 0 is None
ParseInput(inp) == IF inp.uci # 0 THEN inp.uci ELSE inp.san

\* line 24: move in board.legal_moves
IsLegalInput(b, m) == m \in LegalMoves(b)

\* lines 13-28: one prompt of get_user_move.  Text that does not parse
\* repeats the while loop; an illegal move prints 'Illegal move.' and calls
\* get_user_move again, which needs a frame; a legal move is returned
\* through all frames.
GetUserMove ==
    /\ pc = "prompt"
    /\ \E inp \in UserInputs(gboard) :
          LET m == ParseInput(inp)
          IN  IF m = 0
              THEN UNCHANGED <<pc, udepth, umove, err>>
              ELSE IF IsLegalInput(gboard, m)
              THEN /\ pc' = "moved"
                   /\ umove' = m
                   /\ UNCHANGED <<udepth, err>>
              ELSE IF udepth < RecursionLimit
              THEN /\ udepth' = udepth + 1
                   /\ UNCHANGED <<pc, umove, err>>
              ELSE /\ pc' = "aborted"
                   /\ err' = "RecursionError"
                   /\ UNCHANGED <<udepth, umove>>
    /\ UNCHANGED <<rolls, pvs, driver, rand, user_color, gboard, calls, node, board,
                   pick_random, i, depth, newNode, ret, entry, searched,
                   lastBoard, lastMove, batch, report>>

\* play, lines 82-85: the loop test, the user's turn
PlayUserTurn ==
    /\ driver = "play"
    /\ pc = "idle"
    /\ ~IsGameOver(gboard)
    /\ user_color = Turn(gboard)
    /\ pc' = "prompt"
    /\ udepth' = 0
    /\ umove' = 0
    /\ UNCHANGED <<rolls, pvs, driver, rand, user_color, gboard, calls, node, board,
                   pick_random, i, depth, newNode, ret, err, entry, searched,
                   lastBoard, lastMove, batch, report>>

\* play, lines 82-88, had find_move been called whoever is to move
PlayCall_AnyTurn ==
    /\ driver = "play"
    /\ pc = "idle"
    /\ ~IsGameOver(gboard)
    /\ Enter(gboard, rand)
    /\ UNCHANGED <<gboard, calls>>

\* play, lines 82-88: the loop test, the model's turn
PlayCall ==
    /\ driver = "play"
    /\ pc = "idle"
    /\ ~IsGameOver(gboard)
    /\ user_color # Turn(gboard)
    /\ Enter(gboard, rand)
    /\ UNCHANGED <<gboard, calls>>

\* play, line 90: board.push(move), move being what get_user_move or
\* find_move just returned
PlayPush ==
    /\ driver = "play"
    /\ pc \in {"moved", "done"}
    /\ gboard' = BoardPush(gboard, IF pc = "moved" THEN umove ELSE ret)
    /\ pc' = "idle"
    /\ UNCHANGED <<rolls, pvs, driver, rand, calls, node, board, pick_random, i,
                   depth, newNode, ret, err, entry, searched, lastBoard, lastMove>>
    /\ UNCHANGED <<bvars, uvars>>

\* play, lines 82 and 92-94: the game is over, the result is printed
PlayEnd ==
    /\ driver = "play"
    /\ pc = "idle"
    /\ IsGameOver(gboard)
    /\ pc' = "over"
    /\ UNCHANGED <<rolls, pvs, driver, rand, gboard, calls, node, board, pick_random,
                   i, depth, newNode, ret, err, entry, searched, lastBoard, lastMove>>
    /\ UNCHANGED <<bvars, uvars>>

FindMove ==
    \/ Lookup
    \/ Preview
    \/ Iterate
    \/ RaiseEmpty
    \/ Deepen
    \/ StackOverflow
    \/ PickRandom
    \/ PickBest

----------------------------------------------------------------------------
\* MCTS_Model.__init__ (lines 98-102), main (lines 183-193) and
\* get_user_color (lines 31-35)
Init ==
    /\ rolls \in RollsChoices
    /\ pvs \in PvsChoices
    /\ \/ driver = "self_play" /\ rand \in BOOLEAN /\ gboard \in Boards
                               /\ user_color = TRUE
       \/ driver = "play" /\ rand \in BOOLEAN /\ gboard \in Boards
                          /\ user_color \in BOOLEAN
       \/ driver = "direct" /\ rand = FALSE /\ gboard = 0 /\ user_color = TRUE
    /\ calls = 0
    /\ node = NoNode
    /\ pc = "idle"
    /\ board = 0
    /\ pick_random = FALSE
    /\ i = 0
    /\ depth = 0
    /\ newNode = FALSE
    /\ ret = 0
    /\ err = "none"
    /\ entry = NoNode
    /\ searched = NoNode
    /\ lastBoard = 0
    /\ lastMove = 0
    /\ batch = 0
    /\ report = NoReport
    /\ udepth = 0
    /\ umove = 0

Next ==
    \/ FindMove
    \/ SelfPlayCall
    \/ SelfPlayPush
    \/ SelfPlayEnd
    \/ GetUserMove
    \/ PlayUserTurn
    \/ PlayCall
    \/ PlayPush
    \/ PlayEnd
    \/ DirectCall

Spec == Init /\ [][Next]_vars

\* self-play games along the forced line with a budget above a hundred
LongInit ==
    /\ rolls = LongRolls
    /\ pvs \in PvsChoices
    /\ driver = "self_play" /\ rand = FALSE /\ gboard = 14 /\ user_color = TRUE
    /\ calls = 0
    /\ node = NoNode
    /\ pc = "idle"
    /\ board = 0
    /\ pick_random = FALSE
    /\ i = 0
    /\ depth = 0
    /\ newNode = FALSE
    /\ ret = 0
    /\ err = "none"
    /\ entry = NoNode
    /\ searched = NoNode
    /\ lastBoard = 0
    /\ lastMove = 0
    /\ batch = 0
    /\ report = NoReport
    /\ udepth = 0
    /\ umove = 0

LongNext ==
    \/ Lookup
    \/ Preview
    \/ Iterate
    \/ PickBest
    \/ SelfPlayCall
    \/ SelfPlayPush
    \/ SelfPlayEnd

LongSpec == LongInit /\ [][LongNext]_vars

TypeOK ==
    /\ pc \in {"idle", "lookup", "preview", "loop", "done", "failed", "over",
              "prompt", "moved", "aborted"}
    /\ udepth \in 0..RecursionLimit
    /\ batch \in 0..(rolls + 1)
    /\ err \in {"none", "ValueError", "RecursionError", "AttributeError"}
    /\ depth \in 0..RecursionLimit
    /\ i \in 0..rolls

----------------------------------------------------------------------------
(* Properties *)

\* C1: whenever find_move returns, the returned move is a legal move of the
\* supplied board: it is the originating move of one of the children of the
\* searched root, and that root represents the supplied board.
C1_ReturnsLegalMove ==
    pc = "done" =>
        /\ ret \in 1..Len(Succ(board))
        /\ searched.board = board
        /\ <<ret>> \in DOMAIN searched.t
        /\ node.move = ret

C1_Witness ==
    /\ pc = "done"
    /\ Len(Succ(board)) >= 2
    /\ ret >= 2

\* C2: when the previous call selected move lastMove on board lastBoard and
\* this call is given the board that move leads to, the search runs from the
\* previously selected child and no new node is constructed.
C2_TreeReuse ==
    (/\ pc \in {"preview", "loop"}
     /\ lastMove # 0
     /\ board = Succ(lastBoard)[lastMove])
    => /\ ~newNode
       /\ node.board = board
       /\ node.move = lastMove
       /\ (pc = "preview" /\ depth = 0) =>
              /\ node = entry
              /\ node = Child(searched, lastMove)

C2_Witness ==
    /\ pc = "preview"
    /\ depth = 0
    /\ lastMove # 0
    /\ board = Succ(lastBoard)[lastMove]
    /\ driver = "self_play"
    /\ RootN(node) >= 1

\* a child of the root retained at entry has the supplied board
PromotionCase ==
    /\ depth = 0
    /\ entry # NoNode
    /\ \E k \in Children(entry) : Succ(entry.board)[k] = board

\* the child of the root retained at entry whose board is the supplied board
PromotedChild ==
    Child(entry, CHOOSE k \in Children(entry) :
                   /\ Succ(entry.board)[k] = board
                   /\ \A j \in Children(entry) : Succ(entry.board)[j] = board => k <= j)

\* C3 as stated: a child of the retained root whose board equals the supplied
\* board is the root at the start of the iteration loop, with the statistics
\* and children it had before the call, and no new node is built.
C3_PromotedAtLoopStart ==
    (PromotionCase /\ pc = "loop" /\ i = 0) => (node = PromotedChild /\ ~newNode)

\* C3 amended: the promoted child is the root, unchanged, at the end of the
\* lookup step; it is still unchanged at the start of the iteration loop when
\* pvs = 0 (with pvs > 0 the preview rollout of line 143 has visited it).
C3_PromotedAfterLookup ==
    (PromotionCase /\ (pc = "preview" \/ (pc = "loop" /\ i = 0 /\ pvs = 0)))
    => (node = PromotedChild /\ ~newNode)

C3_Witness ==
    /\ PromotionCase
    /\ pc = "loop"
    /\ i = 0
    /\ pvs = 0
    /\ RootN(node) >= 1
    /\ Children(node) # {}
    /\ node.move # entry.move

\* C4: the lookup step constructs a fresh, unvisited root without children,
\* parent or move exactly when, after the child scan, there is no root or the
\* root's board differs from the supplied board; a root whose board equals
\* the supplied board is kept; after the step the root's board is the
\* supplied board.
C4_FreshRootWhenNeeded ==
    /\ [][(pc = "lookup" /\ pc' = "preview") =>
            LET matched == node # NoNode /\ MatchingChildren(node, board) # {}
                needed  == ~matched /\ (node = NoNode \/ node.board # board)
            IN  /\ newNode' <=> needed
                /\ needed => /\ node' = [board |-> board, move |-> 0,
                                         t |-> (<< >> :> [N |-> 0, Q |-> 0])]
                             /\ Children(node') = {}
                /\ (node # NoNode /\ node.board = board) => node' = node
          ]_vars
    /\ [](pc \in {"preview", "loop"} => node.board = board)

C4_Witness ==
    /\ pc = "preview"
    /\ newNode
    /\ entry # NoNode
    /\ entry.board # board
    /\ RootN(entry) >= 1

\* C5: a call that ends with a root without children fails with the
\* distinguished 'no legal move' error instead of evaluating max() over the
\* empty children collection (which raises ValueError).
C5_NoLegalMoveSignal ==
    (pc \in {"done", "failed"} /\ Children(IF pc = "done" THEN searched ELSE node) = {})
    => (pc = "failed" /\ err = "NoLegalMove")

\* C6: an extension round is started only at a batch boundary where
\* 5 * max(child.N) < root.N, and whenever find_move has returned a move the
\* searched root satisfies 5 * max(child.N) >= root.N.
C6_DeepeningThreshold ==
    /\ [][(pc = "loop" /\ pc' = "lookup") =>
            /\ i = rolls
            /\ Children(node) # {}
            /\ \A k \in Children(node) : 5 * ChildN(node, k) < RootN(node)
          ]_vars
    /\ [](pc = "done" =>
            \E k \in Children(searched) : 5 * ChildN(searched, k) >= RootN(searched))

C6_Witness ==
    /\ pc = "done"
    /\ depth >= 1
    /\ Cardinality(Children(searched)) >= 2

\* C7: no extension round is started from a root with exactly one child.
C7_OneChildNoExtension ==
    [][(pc = "loop" /\ Cardinality(Children(node)) = 1) => pc' # "lookup"]_vars

\* C8: a deterministic call on a board that is not over ends with a move: the
\* extension rounds are cut off by a fallback to the best child, they do not
\* run until the call fails.
C8_RoundsBounded ==
    ~(pc = "failed" /\ ~IsGameOver(board) /\ ~pick_random)

\* C9: in deterministic mode the selected child has the maximum visit count
\* among the root's children, is the first such child in children order,
\* is the new current root, and its move is returned.
C9_DeterministicSelection ==
    (pc = "done" /\ ~pick_random) =>
        /\ ret \in Children(searched)
        /\ \A j \in Children(searched) : ChildN(searched, j) <= ChildN(searched, ret)
        /\ \A j \in Children(searched) : j < ret => ChildN(searched, j) < ChildN(searched, ret)
        /\ node = Child(searched, ret)
        /\ ret = node.move

C9_Witness ==
    /\ pc = "done"
    /\ ~pick_random
    /\ \E j \in Children(searched) :
          j > ret /\ ChildN(searched, j) = ChildN(searched, ret)
    /\ \E j \in Children(searched) : j < ret

\* C10: with pick_random a call on a board that is not over, unless its
\* extension rounds ran away, ends with a move: the move of a child of the
\* root with a positive visit count, which is the new current root.
C10_StochasticSelection ==
    (/\ pick_random
     /\ pc \in {"done", "failed"}
     /\ ~IsGameOver(board)
     /\ err # "RecursionError")
    => /\ pc = "done"
       /\ ret \in Children(searched)
       /\ ChildN(searched, ret) > 0
       /\ node = Child(searched, ret)

\* C11: at the batch boundary of an extension round exactly `rolls` further
\* iterations have been applied to the same root since the round began, and
\* no node was created, whatever rolls and pvs are.
C11_ExtensionRunsBudget ==
    (pc = "loop" /\ i = rolls /\ depth >= 1) =>
        /\ batch = rolls
        /\ ~newNode
        /\ node.board = board

\* C12: with rolls = 1 and pvs = 0, a deterministic call on a board that is
\* not over, with a freshly created root, has after its single iteration a
\* root with children and returns the move of one of them at once, without an
\* extension round.
C12_BudgetOne ==
    [][(/\ rolls = 1
        /\ pvs = 0
        /\ pc = "loop"
        /\ i = rolls
        /\ depth = 0
        /\ newNode
        /\ ~pick_random
        /\ ~IsGameOver(board))
       => /\ batch = 1
          /\ Children(node) # {}
          /\ pc' = "done"
          /\ ret' \in Children(node)]_vars

\* C13: no line of a principal-variation report holds more than ten move
\* entries, and the truncation marker stands only at the end of a line.
C13_PvBound ==
    report.printed =>
        \A r \in DOMAIN report.lines :
            LET l == report.lines[r]
            IN  /\ Cardinality({x \in 1..Len(l) : l[x].san # 0}) <= 10
                /\ \A x \in 1..Len(l) : l[x].san = 0 => x = Len(l)

C13_Witness ==
    /\ report.printed
    /\ pc = "loop"
    /\ RootN(node) >= 13
    /\ \E r \in DOMAIN report.lines :
           /\ Len(report.lines[r]) = 11
           /\ report.lines[r][11].san = 0

\* C14: a line of a report ends with the truncation marker if and only if
\* its most-visited path has more than ten moves.
C14_MarkerIffLonger ==
    (pc = "loop" /\ report.printed) =>
        \A r \in DOMAIN report.lines :
            (\E x \in 1..Len(report.lines[r]) : report.lines[r][x].san = 0)
            <=> Len(PvLine(node, r)) > 10

\* the node reached from nd along the first x entries of line l
RECURSIVE Walk(_, _, _)
Walk(nd, l, x) == IF x = 0 THEN nd ELSE Child(Walk(nd, l, x - 1), l[x].san)

\* C15: a report has min(pvs, number of root children) lines; the first
\* moves of the lines are the root's children by visit count descending,
\* equally visited ones in children order, hence pairwise distinct; after its
\* first move a line follows a most visited child at every node, down to a
\* node without children.
C15_PvShape ==
    (pc = "loop" /\ report.printed) =>
        LET L == report.lines
            n == Cardinality(Children(node))
            first(r) == L[r][1].san
            listed == {L[r][1].san : r \in DOMAIN L}
        IN  /\ Len(L) = IF pvs <= n THEN pvs ELSE n
            /\ \A r \in DOMAIN L : Len(L[r]) >= 1 /\ first(r) \in Children(node)
            /\ \A r, q \in DOMAIN L :
                   r < q =>
                       /\ first(r) # first(q)
                       /\ ChildN(node, first(r)) >= ChildN(node, first(q))
                       /\ ChildN(node, first(r)) = ChildN(node, first(q))
                              => first(r) < first(q)
            /\ \A r \in DOMAIN L : \A c \in Children(node) \ listed :
                   /\ ChildN(node, c) <= ChildN(node, first(r))
                   /\ ChildN(node, c) = ChildN(node, first(r)) => first(r) < c
            /\ \A r \in DOMAIN L : \A x \in 2..Len(L[r]) :
                   L[r][x].san # 0 =>
                       LET above == Walk(node, L[r], x - 1)
                       IN  /\ L[r][x].san \in Children(above)
                           /\ \A j \in Children(above) :
                                  ChildN(above, j) <= ChildN(above, L[r][x].san)
            /\ \A r \in DOMAIN L :
                   L[r][Len(L[r])].san # 0 =>
                       Children(Walk(node, L[r], Len(L[r]))) = {}

C15_Witness ==
    /\ pc = "loop"
    /\ report.printed
    /\ Len(report.lines) = 2
    /\ report.lines[1][1].san > report.lines[2][1].san
    /\ Len(report.lines[1]) >= 2
    /\ Cardinality(Children(node)) > 2

\* C16: with pvs > 0 a report follows the first iteration of the loop, each
\* hundredth iteration after it and the last one, and a report is only made
\* of a root that an iteration has visited; with pvs = 0 there is no report
\* and no iteration besides those of the loop.
C16_ReportTiming ==
    pc = "loop" =>
        /\ (pvs > 0 /\ i >= 1 /\ ((i - 1) % 100 = 0 \/ i = rolls)) => report.printed
        /\ report.printed => (pvs > 0 /\ i >= 1 /\ RootN(node) >= 1)
        /\ pvs = 0 => (~report.printed /\ batch = i)

C16_Witness ==
    /\ pc = "loop"
    /\ pvs > 0
    /\ rolls > 101
    /\ i = 101
    /\ report.printed
    /\ Len(report.lines) = 1

\* the drivers that play a game
GameDrivers == {"self_play", "play"}

\* a step of a game in which a failure of find_move is atomic and final
AtomicFailureStep ==
    driver \in GameDrivers =>
        /\ pc # "failed"
        /\ pc' = "failed" =>
               /\ gboard' = gboard
               /\ board = gboard
               /\ node' = node
               /\ node.board = gboard
               /\ ret' = 0

PromptStep ==
    pc = "prompt" =>
        /\ pc' \in {"prompt", "moved"}
        /\ err' = err
        /\ pc' = "moved" => umove' \in LegalMoves(gboard)
        /\ gboard' = gboard
        /\ node' = node

\* C18: whatever the user types, a prompt of get_user_move either prompts
\* again or returns a legal move; it never fails, and it changes neither the
\* game board nor the controller.
C18_InputNeverFails == [][PromptStep]_vars

\* the visits of the first k children of nd
RECURSIVE SumChildN(_, _)
SumChildN(nd, k) == IF k = 0 THEN 0 ELSE ChildN(nd, k) + SumChildN(nd, k - 1)

\* a root with one to four children whose visits add up to RootN - 1, at a
\* batch boundary with RootN >= 5
NarrowRootAtBoundary ==
    /\ pc = "loop"
    /\ i = rolls
    /\ Cardinality(Children(node)) \in 1..4
    /\ SumChildN(node, Cardinality(Children(node))) = RootN(node) - 1
    /\ RootN(node) >= 5

SequencedStep ==
    driver \in GameDrivers =>
        /\ (pc = "idle" /\ pc' = "lookup") =>
               /\ ~IsGameOver(gboard)
               /\ board' = gboard
               /\ driver = "play" => user_color # Turn(gboard)
        /\ gboard' # gboard =>
               /\ pc \in {"done", "moved"}
               /\ pc' = "idle"
               /\ ~IsGameOver(gboard)
               /\ LET move == IF pc = "moved" THEN umove ELSE ret
                  IN  /\ move \in LegalMoves(gboard)
                      /\ gboard' = BoardPush(gboard, move)
        /\ pc \in {"done", "moved"} => gboard' # gboard
        /\ IsGameOver(gboard) => gboard' = gboard

\* C20: in a game find_move is entered only from the loop test, on the game
\* board, which is not over, and in play only when the user is not to move;
\* the board changes only by the push of the move just returned, which is
\* the step after the return; once the board is over it never changes.
C20_GameLoopSequencing == [][SequencedStep]_vars

C20_Witness ==
    /\ driver = "play"
    /\ pc = "over"
    /\ IsGameOver(gboard)
    /\ umove # 0
    /\ lastMove # 0

====
